---- MODULE Spec2Model ----
(***************************************************************************)
(* Model of the decision-fusion core of apatte-pitbox:                     *)
(*   - InferenceEngine.run_real_time_inference (inference_engine.py)       *)
(*   - apply_priority_cascade and its three phases (priority_cascade.py)   *)
(*   - validate_telemetry (data_validators.py)                             *)
(* Time is counted in whole milliseconds; it advances only while a         *)
(* predictor call is running.  Percentages are whole numbers, confidences  *)
(* are hundredths, efficiency gains are tenths of a percent.               *)
(***************************************************************************)
EXTENDS Integers, Sequences, FiniteSets, TLC

\* ------------------------------------------------------------------ bounds
MaxBudget == 2
MaxLatency == 1
MaxLap == 6
MaxTotal == 5
MaxSoc == 30
MaxRecommendations == 3
MaxRequests == 102

\* ------------------------------------------------------- python dictionaries
\* A dict is a function; d.get(k, default)
Get(d, k, default) == IF k \in DOMAIN d THEN d[k] ELSE default

\* the empty dict {}
EmptyDict == [k \in {} |-> 0]

\* Python's None as the value of an action variable
None == [action |-> "None"]

\* ------------------------------------------------------------ the predictors
priority_order ==
    << "anomaly", "fatigue", "energy", "h2_purge",
       "racing_line", "slip_coast", "efficiency", "rank" >>

ModelNames == { priority_order[i] : i \in 1..Len(priority_order) }

\* predict_anomaly: detected flag and the severity of the strongest detector
AnomalyOutputs ==
    { [anomaly_detected |-> FALSE, severity |-> "LOW"],
      [anomaly_detected |-> TRUE,  severity |-> "MEDIUM"],
      [anomaly_detected |-> TRUE,  severity |-> "CRITICAL"] }

\* predict_fatigue: the medical alerts in the order the checks append them,
\* and the level, escalated to 3 on hypoxia
predict_fatigue(spo2_low, hr_high, prediction) ==
    LET hypoxia == IF spo2_low
                   THEN << [severity |-> "CRITICAL", alert |-> "HYPOXIA_RISK"] >>
                   ELSE << >>
        high_hr == IF hr_high
                   THEN << [severity |-> "HIGH", alert |-> "HIGH_HR"] >>
                   ELSE << >>
    IN  [ fatigue_level  |-> IF spo2_low THEN 3 ELSE prediction,
          medical_alerts |-> hypoxia \o high_hr ]

FatigueLevels == {1, 3}

FatigueOutputs ==
    { predict_fatigue(s, h, p) : s \in BOOLEAN, h \in BOOLEAN, p \in FatigueLevels }

\* predict_energy: will_finish and margin from the predicted final SOC
predict_energy(raw_prediction) ==
    [ will_finish |-> raw_prediction > 5,
      margin      |-> raw_prediction - 5 ]

RawPredictions == {3, 14, 15, 40}

EnergyOutputs == { predict_energy(r) : r \in RawPredictions }

\* predict_h2_purge: the emergency override and a normal answer
PurgeOutputs ==
    { [purge_recommend |-> "EMERGENCY_PURGE", severity |-> "CRITICAL"],
      [purge_recommend |-> "WAIT",            severity |-> "LOW"] }

RacingLineOutputs == { [confidence |-> c] : c \in {70, 79} }

SlipCoastOutputs ==
    { [slip_detected |-> TRUE,  optimal_coast_ratio |-> 50],
      [slip_detected |-> FALSE, optimal_coast_ratio |-> 50],
      [slip_detected |-> FALSE, optimal_coast_ratio |-> 60] }

EfficiencyOutputs == { [efficiency_gain |-> g] : g \in {20, 23} }

RankOutputs == { [podium_probability |-> 50] }

Outputs(model_name) ==
    CASE model_name = "anomaly"     -> AnomalyOutputs
      [] model_name = "fatigue"     -> FatigueOutputs
      [] model_name = "energy"      -> EnergyOutputs
      [] model_name = "h2_purge"    -> PurgeOutputs
      [] model_name = "racing_line" -> RacingLineOutputs
      [] model_name = "slip_coast"  -> SlipCoastOutputs
      [] model_name = "efficiency"  -> EfficiencyOutputs
      [] model_name = "rank"        -> RankOutputs

\* the outputs the predictors give in the engine cycles explored: one quiet
\* answer per predictor, plus a critical anomaly and an energy shortfall
EngineOutputs(model_name) ==
    CASE model_name = "anomaly"     ->
             { [anomaly_detected |-> FALSE, severity |-> "LOW"],
               [anomaly_detected |-> TRUE,  severity |-> "CRITICAL"] }
      [] model_name = "fatigue"     -> { predict_fatigue(FALSE, FALSE, 1) }
      [] model_name = "energy"      -> { predict_energy(15), predict_energy(3) }
      [] model_name = "h2_purge"    ->
             { [purge_recommend |-> "WAIT", severity |-> "LOW"] }
      [] model_name = "racing_line" -> { [confidence |-> 79] }
      [] model_name = "slip_coast"  ->
             { [slip_detected |-> FALSE, optimal_coast_ratio |-> 60] }
      [] model_name = "efficiency"  -> { [efficiency_gain |-> 23] }
      [] model_name = "rank"        -> RankOutputs

\* --------------------------------------------------------- priority cascade
\* the exception a comparison of None with a number raises
TypeError == [exception |-> "TypeError"]

\* Phase 1 with the fatigue checks ahead of the anomaly check
SafetyFatigueFirst(model_results, race_context) ==
    LET anomaly == Get(model_results, "anomaly", EmptyDict)
        fatigue == Get(model_results, "fatigue", EmptyDict)
        alerts  == Get(fatigue, "medical_alerts", << >>)
    IN  IF Len(alerts) > 0
        THEN [ action   |-> "MEDICAL_ALERT",
               severity |-> IF Get(alerts[1], "severity", "None") = "CRITICAL"
                            THEN "CRITICAL" ELSE "HIGH" ]
        ELSE IF Get(fatigue, "fatigue_level", 0) = 3
        THEN [ action |-> "HIGH_FATIGUE", severity |-> "HIGH" ]
        ELSE IF Get(anomaly, "anomaly_detected", FALSE)
        THEN [ action   |-> "ANOMALY_DETECTED",
               severity |-> IF Get(anomaly, "severity", "None") = "CRITICAL"
                            THEN "CRITICAL" ELSE "HIGH" ]
        ELSE None

\* Phase 1 with an emergency purge treated as a safety action
SafetyReadsPurge(model_results, race_context) ==
    LET anomaly == Get(model_results, "anomaly", EmptyDict)
        fatigue == Get(model_results, "fatigue", EmptyDict)
        alerts  == Get(fatigue, "medical_alerts", << >>)
        purge   == Get(model_results, "h2_purge", EmptyDict)
    IN  IF Get(purge, "severity", "None") = "CRITICAL"
        THEN [ action |-> "EMERGENCY_PURGE", severity |-> "CRITICAL" ]
        ELSE IF Get(anomaly, "anomaly_detected", FALSE)
        THEN [ action   |-> "ANOMALY_DETECTED",
               severity |-> IF Get(anomaly, "severity", "None") = "CRITICAL"
                            THEN "CRITICAL" ELSE "HIGH" ]
        ELSE IF Len(alerts) > 0
        THEN [ action   |-> "MEDICAL_ALERT",
               severity |-> IF Get(alerts[1], "severity", "None") = "CRITICAL"
                            THEN "CRITICAL" ELSE "HIGH" ]
        ELSE IF Get(fatigue, "fatigue_level", 0) = 3
        THEN [ action |-> "HIGH_FATIGUE", severity |-> "HIGH" ]
        ELSE None

\* Phase 1: anomaly, then the first medical alert, then fatigue level 3
_check_safety_constraints(model_results, race_context) ==
    LET anomaly == Get(model_results, "anomaly", EmptyDict)
        fatigue == Get(model_results, "fatigue", EmptyDict)
        alerts  == Get(fatigue, "medical_alerts", << >>)
    IN  IF Get(anomaly, "anomaly_detected", FALSE)
        THEN [ action   |-> "ANOMALY_DETECTED",
               severity |-> IF Get(anomaly, "severity", "None") = "CRITICAL"
                            THEN "CRITICAL" ELSE "HIGH" ]
        ELSE IF Len(alerts) > 0
        THEN [ action   |-> "MEDICAL_ALERT",
               severity |-> IF Get(alerts[1], "severity", "None") = "CRITICAL"
                            THEN "CRITICAL" ELSE "HIGH" ]
        ELSE IF Get(fatigue, "fatigue_level", 0) = 3
        THEN [ action |-> "HIGH_FATIGUE", severity |-> "HIGH" ]
        ELSE None

\* Phase 2 with the margin test at <= 10
EnergyMarginInclusive(model_results, race_context) ==
    LET energy == Get(model_results, "energy", EmptyDict)
    IN  IF "will_finish" \in DOMAIN energy /\ energy["will_finish"] = FALSE
        THEN [ action |-> "DNF_RISK", severity |-> "CRITICAL" ]
        ELSE IF "margin" \notin DOMAIN energy
        THEN TypeError
        ELSE IF energy["margin"] <= 10
        THEN [ action |-> "LOW_ENERGY_MARGIN", severity |-> "HIGH" ]
        ELSE None

\* Phase 2: will_finish == False, then margin < 10; the comparison raises
\* when the energy dict has no margin
_check_energy_constraints(model_results, race_context) ==
    LET energy == Get(model_results, "energy", EmptyDict)
    IN  IF "will_finish" \in DOMAIN energy /\ energy["will_finish"] = FALSE
        THEN [ action |-> "DNF_RISK", severity |-> "CRITICAL" ]
        ELSE IF "margin" \notin DOMAIN energy
        THEN TypeError
        ELSE IF energy["margin"] < 10
        THEN [ action |-> "LOW_ENERGY_MARGIN", severity |-> "HIGH" ]
        ELSE None

\* the sub-recommendations with the racing line taken at confidence 0.7 too
RecommendationsLineInclusive(model_results) ==
    LET racing_line == Get(model_results, "racing_line", EmptyDict)
        efficiency  == Get(model_results, "efficiency", EmptyDict)
        slip_coast  == Get(model_results, "slip_coast", EmptyDict)
    IN  (IF Get(racing_line, "confidence", 0) >= 70
         THEN << "RACING_LINE" >> ELSE << >>)
        \o
        (IF Get(efficiency, "efficiency_gain", 0) > 20
         THEN << "THROTTLE_OPTIMIZATION" >> ELSE << >>)
        \o
        (IF Get(slip_coast, "slip_detected", FALSE)
         THEN << "TRACTION_CONTROL" >>
         ELSE IF Get(slip_coast, "optimal_coast_ratio", 0) > 50
              THEN << "COASTING_OPTIMIZATION" >> ELSE << >>)

\* the sub-recommendations with coasting suggested beside a detected slip
RecommendationsCoastBesideSlip(model_results) ==
    LET racing_line == Get(model_results, "racing_line", EmptyDict)
        efficiency  == Get(model_results, "efficiency", EmptyDict)
        slip_coast  == Get(model_results, "slip_coast", EmptyDict)
    IN  (IF Get(racing_line, "confidence", 0) > 70
         THEN << "RACING_LINE" >> ELSE << >>)
        \o
        (IF Get(efficiency, "efficiency_gain", 0) > 20
         THEN << "THROTTLE_OPTIMIZATION" >> ELSE << >>)
        \o
        (IF Get(slip_coast, "slip_detected", FALSE)
         THEN << "TRACTION_CONTROL" >> ELSE << >>)
        \o
        (IF Get(slip_coast, "optimal_coast_ratio", 0) >= 50
         THEN << "COASTING_OPTIMIZATION" >> ELSE << >>)

\* the sub-recommendations Phase 3 collects, in the order it appends them
PerformanceRecommendations(model_results) ==
    LET racing_line == Get(model_results, "racing_line", EmptyDict)
        efficiency  == Get(model_results, "efficiency", EmptyDict)
        slip_coast  == Get(model_results, "slip_coast", EmptyDict)
    IN  (IF Get(racing_line, "confidence", 0) > 70
         THEN << "RACING_LINE" >> ELSE << >>)
        \o
        (IF Get(efficiency, "efficiency_gain", 0) > 20
         THEN << "THROTTLE_OPTIMIZATION" >> ELSE << >>)
        \o
        (IF Get(slip_coast, "slip_detected", FALSE)
         THEN << "TRACTION_CONTROL" >>
         ELSE IF Get(slip_coast, "optimal_coast_ratio", 0) > 50
              THEN << "COASTING_OPTIMIZATION" >> ELSE << >>)

\* the sub-recommendations bundled as one action
PerformanceAction(model_results, race_context) ==
    LET actions == PerformanceRecommendations(model_results)
    IN  IF actions = << >>
        THEN None
        ELSE [ action   |-> "PERFORMANCE_OPTIMIZATION",
               severity |-> "NORMAL",
               phase_specific_recommendations |-> actions,
               race_phase |-> Get(race_context, "race_phase", "UNKNOWN") ]

\* Phase 3 gated on critical actions only
RecommendUnlessCritical(model_results, race_context, safety_action, energy_action) ==
    IF Get(safety_action, "severity", "None") = "CRITICAL"
       \/ Get(energy_action, "severity", "None") = "CRITICAL"
    THEN None
    ELSE PerformanceAction(model_results, race_context)

\* Phase 3 with no gate at all
RecommendAlways(model_results, race_context, safety_action, energy_action) ==
    PerformanceAction(model_results, race_context)

\* Phase 3: nothing when a safety or an energy action exists
_recommend_performance_optimization(model_results, race_context, safety_action, energy_action) ==
    IF safety_action # None \/ energy_action # None
    THEN None
    ELSE PerformanceAction(model_results, race_context)

AlertSeverities == {"CRITICAL", "HIGH", "WARNING"}

\* len([a for a in actions if a.get("severity") in [...]])
CountAlerts(actions) ==
    Cardinality({ i \in 1..Len(actions) :
                    Get(actions[i], "severity", "None") \in AlertSeverities })

Optional(a) == IF a = None THEN << >> ELSE << a >>

ShortCircuitsNever(severity_level) == FALSE

\* line 40: a critical safety action ends the cascade
ShortCircuits(severity_level) == severity_level \in {"CRITICAL", "EMERGENCY"}

\* the action list with the energy action ahead of the safety action
CollectEnergyFirst(safety_action, energy_action, performance_action) ==
    Optional(energy_action) \o Optional(safety_action)
        \o Optional(performance_action)

\* lines 36, 51, 63: the appends to actions, in phase order
CollectActions(safety_action, energy_action, performance_action) ==
    Optional(safety_action) \o Optional(energy_action)
        \o Optional(performance_action)

apply_priority_cascade(model_results, race_context) ==
    LET safety_action == _check_safety_constraints(model_results, race_context)
        severity1     == IF safety_action # None
                         THEN Get(safety_action, "severity", "WARNING")
                         ELSE "NORMAL"
    IN  IF safety_action # None /\ ShortCircuits(severity1)
        THEN [ primary_action |-> safety_action,
               actions        |-> << safety_action >>,
               reason         |-> "SAFETY OVERRIDE",
               severity       |-> severity1 ]
        ELSE
        LET energy_action == _check_energy_constraints(model_results, race_context)
        IN  IF energy_action = TypeError
            THEN TypeError
            ELSE
            LET severity2 == IF energy_action # None
                                /\ Get(energy_action, "severity", "None")
                                     \in {"CRITICAL", "HIGH"}
                             THEN "WARNING" ELSE severity1
                performance_action ==
                    _recommend_performance_optimization(
                        model_results, race_context, safety_action, energy_action)
                actions == CollectActions(safety_action, energy_action,
                                          performance_action)
            IN  [ primary_action  |-> IF actions # << >> THEN actions[1]
                                      ELSE [action |-> "NORMAL_OPERATION"],
                  cascade_actions |-> actions,
                  severity        |-> severity2,
                  race_context    |-> race_context,
                  count_alerts    |-> CountAlerts(actions) ]

\* the aggressiveness matrix of the cascade module; safety margins in
\* tenths, confidence thresholds in hundredths
get_aggressiveness_level(race_context) ==
    LET race_phase == Get(race_context, "race_phase", "UNKNOWN")
        soc        == Get(race_context, "current_soc", 50)
        level ==
            IF race_phase \in {"EARLY", "PRACTICE"}
            THEN << "MODERATE", 15, 70 >>
            ELSE IF race_phase = "MID"
            THEN IF soc > 25 THEN << "MODERATE", 15, 70 >>
                 ELSE IF soc > 15 THEN << "BALANCED", 13, 75 >>
                 ELSE << "CONSERVATIVE", 18, 80 >>
            ELSE IF race_phase = "LATE"
            THEN IF soc > 15 THEN << "MODERATE", 13, 70 >>
                 ELSE IF soc > 8 THEN << "CONSERVATIVE", 20, 80 >>
                 ELSE << "SURVIVAL", 30, 85 >>
            ELSE << "MODERATE", 15, 70 >>
    IN  [ aggressiveness       |-> level[1],
          safety_margin        |-> level[2],
          confidence_threshold |-> level[3],
          optimization_allowed |-> level[1] # "SURVIVAL",
          pit_recommended      |-> level[1] \in {"CONSERVATIVE", "SURVIVAL"}
                                     /\ soc < 20 ]

\* ------------------------------------------------------ telemetry validation
required_keys == {"soc_current", "speed_avg", "motor_temp"}

\* a dict is valid when it has the three required keys; a DataFrame when no
\* column is entirely null and at least one column is numeric; anything else
\* is invalid
validate_telemetry(t) ==
    CASE t.kind = "dict"      -> required_keys \subseteq t.columns
      [] t.kind = "DataFrame" -> ~t.all_null_column /\ t.numeric_cols # {}
      [] OTHER                -> FALSE

Telemetry(kind, columns, all_null_column) ==
    [ kind |-> kind, columns |-> columns,
      all_null_column |-> all_null_column, numeric_cols |-> columns ]

TelemetryInputs ==
    { Telemetry("dict", required_keys, FALSE),
      Telemetry("dict", required_keys \ {"soc_current"}, FALSE),
      Telemetry("DataFrame", required_keys \ {"soc_current"}, FALSE),
      Telemetry("DataFrame", required_keys, TRUE) }

RaceContexts ==
    { [race_phase |-> "MID",  current_soc |-> 50],
      [race_phase |-> "LATE", current_soc |-> 5] }

EngineContexts == { [race_phase |-> "MID", current_soc |-> 50] }

\* ----------------------------------------------------------- context manager
\* RaceContext(): the fields of the dataclass the operations modelled touch
RaceContext ==
    [ race_phase |-> "UNKNOWN", current_lap |-> 0, laps_remaining |-> 0,
      current_soc |-> 100 ]

\* setattr for every keyword that names a field of the context
update_context(ctx, kwargs) ==
    [ key \in DOMAIN ctx |->
        IF key \in DOMAIN kwargs THEN kwargs[key] ELSE ctx[key] ]

DefaultTotalLaps == 4

\* the aggressiveness matrix of the context manager; safety margins in tenths
get_adaptive_parameters(ctx) ==
    LET phase == ctx.race_phase
        soc   == ctx.current_soc
        level ==
            IF phase \in {"PRACTICE", "EARLY"}
            THEN << "MODERATE", 15 >>
            ELSE IF phase = "MID"
            THEN IF soc > 25 THEN << "MODERATE", 15 >>
                 ELSE IF soc > 15 THEN << "BALANCED", 13 >>
                 ELSE << "CONSERVATIVE", 18 >>
            ELSE IF soc > 15 THEN << "MODERATE", 13 >>
                 ELSE IF soc > 8 THEN << "CONSERVATIVE", 20 >>
                 ELSE << "SURVIVAL", 30 >>
    IN  [ aggressiveness |-> level[1],
          safety_margin  |-> level[2],
          phase          |-> phase,
          soc            |-> soc ]

\* a snapshot that is the context object's own dict
GetContextShared(ctx) ==
    [ taken |-> TRUE, shared |-> TRUE, value |-> ctx ]

\* self.context.to_dict(): asdict builds a new dict, so the value returned
\* shares nothing with the context object
get_current_context(ctx) ==
    [ taken |-> TRUE, shared |-> FALSE, value |-> ctx ]

\* the phase with the last-lap test ahead of the early and mid laps
PhaseLastLapFirst(current_lap, total_laps) ==
    IF current_lap = 0 THEN "PRACTICE"
    ELSE IF current_lap = total_laps THEN "LATE"
    ELSE IF current_lap > total_laps THEN "FINISH"
    ELSE IF current_lap <= 2 THEN "EARLY"
    ELSE IF current_lap = 3 THEN "MID"
    ELSE "UNKNOWN"

\* the if/elif chain of determine_race_phase
determine_race_phase(current_lap, total_laps) ==
    IF current_lap = 0 THEN "PRACTICE"
    ELSE IF current_lap <= 2 THEN "EARLY"
    ELSE IF current_lap = 3 THEN "MID"
    ELSE IF current_lap = total_laps THEN "LATE"
    ELSE IF current_lap > total_laps THEN "FINISH"
    ELSE "UNKNOWN"

\* ---------------------------------------------------------- inference engine
VARIABLES
    telemetry,        \* the telemetry handed to the cycle
    race_context,     \* the context snapshot handed to the cycle
    timeout_ms,       \* the budget of the cycle
    pc,               \* "start", "loop", "done"; "cascade", "returned"
    idx,              \* position of the for loop in priority_order
    elapsed,          \* time.time() - start_time
    results,          \* the results dict
    invoked,          \* the predictors called so far, in call order
    failed,           \* the predictors whose call returned None
    last_latency,     \* duration of the most recent predictor call
    timed_out,        \* the loop was left through the break
    inference_times,  \* self.inference_times
    decision,         \* the value the cycle returns
    context,          \* ContextManager.context
    phase_call,       \* the latest determine_race_phase call and its result
    prev_phase_call,  \* the determine_race_phase call before it
    snapshot,         \* the dict the latest get_current_context returned
    last_op,          \* the latest ContextManager operation
    inference_history,\* STATE.inference_history
    active_map,       \* STATE.active_map
    response,         \* what the latest inference request returned
    engine_loaded,    \* STATE.engine is not None
    now,              \* time.time() as seen by the API, in request ticks
    fn_call           \* the latest call of a pure function and its result

enginevars ==
    << telemetry, race_context, timeout_ms, pc, idx, elapsed, results,
       invoked, failed, last_latency, timed_out, inference_times, decision >>

ctxvars == << context, phase_call, prev_phase_call, snapshot, last_op >>

apivars == << inference_history, active_map, response, engine_loaded, now >>

fnvars == << fn_call >>

othervars == << ctxvars, apivars, fnvars >>

vars == << telemetry, race_context, timeout_ms, pc, idx, elapsed, results,
           invoked, failed, last_latency, timed_out, inference_times, decision,
           context, phase_call, prev_phase_call, snapshot, last_op,
           inference_history, active_map, response, engine_loaded, now,
           fn_call >>

NoCall == [called |-> FALSE]

NoSnapshot == [taken |-> FALSE]

NoResponse == [returned |-> FALSE]

\* AppState.active_map as constructed
DefaultMap == [id |-> "default", name |-> "Default Track", code |-> "default"]

\* ContextManager(): a fresh context, determine_race_phase not yet called
InitContextManager ==
    /\ context = RaceContext
    /\ phase_call = NoCall
    /\ prev_phase_call = NoCall
    /\ snapshot = NoSnapshot
    /\ last_op = "__init__"

\* AppState() without a loaded engine, no request served, no function called
InitAppState ==
    /\ inference_history = << >>
    /\ active_map = DefaultMap
    /\ response = NoResponse
    /\ engine_loaded = FALSE
    /\ now = 0
    /\ fn_call = NoCall

Pending == [pending |-> TRUE]

\* the value of an unhandled exception leaving a predictor call
PredictorError == [exception |-> "PredictorError"]

\* inference_budget = timeout_ms / 1000.0, kept in milliseconds
inference_budget(ms) == ms

BudgetExhaustedAtBudget(elapsed_ms, budget) == elapsed_ms >= budget

BudgetExhaustedLate(elapsed_ms, budget) == elapsed_ms > budget + 1

BudgetExhaustedNever(elapsed_ms, budget) == FALSE

\* the check before each call: (time.time() - start_time) > inference_budget
BudgetExhausted(elapsed_ms, budget) == elapsed_ms > budget

\* the predictor call without its try/except
RunInferenceUnguarded(loaded, raises, output) ==
    IF ~loaded THEN None
    ELSE IF raises THEN PredictorError
    ELSE output

\* _run_<model>_inference: None when the model is not loaded, None when the
\* predictor raises (the except branch), else the predictor's result
_run_inference(loaded, raises, output) ==
    IF ~loaded THEN None
    ELSE IF raises THEN None
    ELSE output

\* results[model_name] = result, only for a truthy result
StoreResult(res, model_name, result) ==
    IF result # None THEN (model_name :> result) @@ res ELSE res

\* self.inference_times[model_name] = ..., in the same if
StoreTime(times, model_name, result, latency) ==
    IF result # None THEN (model_name :> latency) @@ times ELSE times

_generate_fallback_response(reason) ==
    [ status          |-> "FALLBACK",
      reason          |-> reason,
      recommendations |-> << "Monitor systems manually",
                             "Reduce speed to safe level",
                             "Pit for inspection if needed" >>,
      models_executed |-> << >> ]

\* list(results.keys()): the keys in insertion order, which is call order
KeysInOrder(res) ==
    SelectSeq(priority_order, LAMBDA m : m \in DOMAIN res)

\* the decision with total_inference_ms and models_executed added
Stamp(d, total_ms, res) ==
    [total_inference_ms |-> total_ms, models_executed |-> KeysInOrder(res)] @@ d

Init ==
    /\ telemetry \in TelemetryInputs
    /\ race_context \in EngineContexts
    /\ timeout_ms \in 0..MaxBudget
    /\ pc = "start"
    /\ idx = 1
    /\ elapsed = 0
    /\ results = EmptyDict
    /\ invoked = << >>
    /\ failed = {}
    /\ last_latency = 0
    /\ timed_out = FALSE
    /\ inference_times = EmptyDict
    /\ decision = Pending
    /\ InitContextManager
    /\ InitAppState

\* lines 63-71: invalid telemetry returns the fallback response at once
Validate ==
    /\ pc = "start"
    /\ IF validate_telemetry(telemetry)
       THEN /\ pc' = "loop"
            /\ decision' = decision
       ELSE /\ pc' = "done"
            /\ decision' = _generate_fallback_response("Invalid telemetry")
    /\ UNCHANGED << telemetry, race_context, timeout_ms, idx, elapsed, results,
                    invoked, failed, last_latency, timed_out, inference_times >>
    /\ UNCHANGED othervars

\* one iteration of the for loop that passes the budget check
Invoke ==
    /\ pc = "loop"
    /\ idx <= Len(priority_order)
    /\ ~BudgetExhausted(elapsed, inference_budget(timeout_ms))
    /\ \E loaded \in BOOLEAN, raises \in BOOLEAN,
          output \in EngineOutputs(priority_order[idx]), latency \in 0..MaxLatency :
         LET model_name == priority_order[idx]
             result     == _run_inference(loaded, raises, output)
         IN  /\ invoked' = Append(invoked, model_name)
             /\ elapsed' = elapsed + latency
             /\ last_latency' = latency
             /\ IF result = PredictorError
                THEN /\ pc' = "done"
                     /\ decision' = PredictorError
                     /\ UNCHANGED << idx, results, failed, inference_times >>
                ELSE /\ results' = StoreResult(results, model_name, result)
                     /\ inference_times' =
                            StoreTime(inference_times, model_name, result, latency)
                     /\ failed' = IF result = None
                                  THEN failed \cup {model_name} ELSE failed
                     /\ idx' = idx + 1
                     /\ UNCHANGED << pc, decision >>
    /\ UNCHANGED << telemetry, race_context, timeout_ms, timed_out >>
    /\ UNCHANGED othervars

\* the end of the loop (all predictors tried, or the break on the budget
\* check), the cascade on the collected results, and the stamping
Finish ==
    /\ pc = "loop"
    /\ \/ idx > Len(priority_order)
       \/ BudgetExhausted(elapsed, inference_budget(timeout_ms))
    /\ timed_out' = (idx <= Len(priority_order))
    /\ LET final_decision == apply_priority_cascade(results, race_context)
       IN  decision' = IF final_decision = TypeError
                       THEN TypeError
                       ELSE Stamp(final_decision, elapsed, results)
    /\ pc' = "done"
    /\ UNCHANGED << telemetry, race_context, timeout_ms, idx, elapsed, results,
                    invoked, failed, last_latency, inference_times >>
    /\ UNCHANGED othervars

Next == Validate \/ Invoke \/ Finish

Spec == Init /\ [][Next]_vars

\* ------------------------------------------- the cascade called on its own
\* every result set the eight predictors can leave behind: each predictor
\* either absent or present with one of its outputs
Present(full) ==
    [ m \in { n \in ModelNames : full[n] # None } |-> full[m] ]

InitCascade ==
    /\ \E a \in AnomalyOutputs \cup {None}, f \in FatigueOutputs \cup {None},
          e \in EnergyOutputs \cup {None}, h \in PurgeOutputs \cup {None},
          l \in RacingLineOutputs \cup {None}, s \in SlipCoastOutputs \cup {None},
          g \in EfficiencyOutputs \cup {None}, r \in RankOutputs \cup {None} :
         results = Present( ("anomaly" :> a) @@ ("fatigue" :> f)
                            @@ ("energy" :> e) @@ ("h2_purge" :> h)
                            @@ ("racing_line" :> l) @@ ("slip_coast" :> s)
                            @@ ("efficiency" :> g) @@ ("rank" :> r) )
    /\ race_context \in RaceContexts
    /\ telemetry = Telemetry("dict", required_keys, FALSE)
    /\ timeout_ms = 0
    /\ pc = "cascade"
    /\ idx = 1
    /\ elapsed = 0
    /\ invoked = << >>
    /\ failed = {}
    /\ last_latency = 0
    /\ timed_out = FALSE
    /\ inference_times = EmptyDict
    /\ decision = Pending
    /\ InitContextManager
    /\ InitAppState

\* apply_priority_cascade(model_results, race_context)
Cascade ==
    /\ pc = "cascade"
    /\ decision' = apply_priority_cascade(results, race_context)
    /\ pc' = "returned"
    /\ UNCHANGED << telemetry, race_context, timeout_ms, idx, elapsed, results,
                    invoked, failed, last_latency, timed_out, inference_times >>
    /\ UNCHANGED othervars

NextCascade == Cascade

SpecCascade == InitCascade /\ [][NextCascade]_vars

\* --------------------------------------- the context manager called on its own
InitContext ==
    /\ InitContextManager
    /\ InitAppState
    /\ telemetry = Telemetry("dict", required_keys, FALSE)
    /\ race_context \in EngineContexts
    /\ timeout_ms = 0
    /\ pc = "context"
    /\ idx = 1
    /\ elapsed = 0
    /\ results = EmptyDict
    /\ invoked = << >>
    /\ failed = {}
    /\ last_latency = 0
    /\ timed_out = FALSE
    /\ inference_times = EmptyDict
    /\ decision = Pending

\* a write to the context object as seen through a dict handed out earlier:
\* a dict that shares the object's storage shows the write, a copy does not
SeenThrough(snap, ctx) ==
    IF snap.taken /\ snap.shared THEN [snap EXCEPT !.value = ctx] ELSE snap

\* determine_race_phase(current_lap, total_laps), with the arguments drawn
\* from the given sets: the phase is stored with update_context(race_phase=
\* phase) and returned
DetermineRacePhaseOver(label, laps, totals) ==
    /\ pc = label
    /\ \E current_lap \in laps, total_laps \in totals :
         LET phase == determine_race_phase(current_lap, total_laps)
             ctx   == update_context(context, [race_phase |-> phase])
         IN  /\ context' = ctx
             /\ snapshot' = SeenThrough(snapshot, ctx)
             /\ phase_call' = [ called      |-> TRUE,
                                current_lap |-> current_lap,
                                total_laps  |-> total_laps,
                                phase       |-> phase ]
    /\ prev_phase_call' = phase_call
    /\ last_op' = "determine_race_phase"
    /\ UNCHANGED << enginevars, apivars, fnvars >>

DetermineRacePhase ==
    DetermineRacePhaseOver("context", 0..MaxLap, 1..MaxTotal)

NextContext == DetermineRacePhase

SpecContext == InitContext /\ [][NextContext]_vars

\* ----------------------------------------- the operations of the tracker
\* keyword arguments of update_context: a lap, an SOC outside 0..100, and a
\* keyword that names no field
TrackerUpdates ==
    { [current_lap |-> 3],
      [current_soc |-> 150],
      [pit_lane |-> TRUE] }

TrackerLaps == {5}

\* update_soc_and_eta arguments: SOC and efficiency (km/kWh)
TrackerSocs == {-5}

TrackerEfficiencies == {0, 100}

\* a JSON value of a request: a number or a string
Num(n) == [num |-> n]

Str(text) == [str |-> text]

\* the context part of a request: empty, complete, and one whose lap is not
\* a number
PayloadContexts ==
    { EmptyDict,
      [race_phase |-> "LATE", current_lap |-> Num(4), laps_remaining |-> Num(0)],
      [current_lap |-> Str("two")] }

\* soc_current of the frame built from the request telemetry
FrameSoc == 68

\* int(value) succeeds on a number and raises ValueError on the string
IsInt(value) == "num" \in DOMAIN value

InitTracker ==
    /\ InitContextManager
    /\ InitAppState
    /\ telemetry = Telemetry("dict", required_keys, FALSE)
    /\ race_context \in EngineContexts
    /\ timeout_ms = 0
    /\ pc = "tracker"
    /\ idx = 1
    /\ elapsed = 0
    /\ results = ("energy" :> predict_energy(40))
                   @@ ("racing_line" :> [confidence |-> 79])
    /\ invoked = << >>
    /\ failed = {}
    /\ last_latency = 0
    /\ timed_out = FALSE
    /\ inference_times = EmptyDict
    /\ decision = Pending

\* update_context(**kwargs)
UpdateContext ==
    /\ pc = "tracker"
    /\ \E kwargs \in TrackerUpdates :
         LET ctx == update_context(context, kwargs)
         IN  /\ context' = ctx
             /\ snapshot' = SeenThrough(snapshot, ctx)
    /\ last_op' = "update_context"
    /\ UNCHANGED << phase_call, prev_phase_call, enginevars, apivars, fnvars >>

TrackerDetermineRacePhase ==
    DetermineRacePhaseOver("tracker", TrackerLaps, {DefaultTotalLaps})

\* update_soc_and_eta(current_soc, remaining_distance, current_efficiency):
\* the division by current_efficiency raises before the context is written
UpdateSocAndEta ==
    /\ pc = "tracker"
    /\ \E current_soc \in TrackerSocs, current_efficiency \in TrackerEfficiencies :
         LET ctx == IF current_efficiency = 0 THEN context
                    ELSE update_context(context, [current_soc |-> current_soc])
         IN  /\ context' = ctx
             /\ snapshot' = SeenThrough(snapshot, ctx)
    /\ last_op' = "update_soc_and_eta"
    /\ UNCHANGED << phase_call, prev_phase_call, enginevars, apivars, fnvars >>

\* the context update of _context_from_payload; an int() that raises leaves
\* the context as it was
context_from_payload(ctx, payload_context, soc_current) ==
    IF ~IsInt(Get(payload_context, "current_lap", Num(2)))
       \/ ~IsInt(Get(payload_context, "laps_remaining", Num(2)))
    THEN ctx
    ELSE update_context(ctx,
             [ race_phase     |-> Get(payload_context, "race_phase", "MID"),
               current_soc    |-> soc_current,
               current_lap    |-> Get(payload_context, "current_lap", Num(2)).num,
               laps_remaining |->
                   Get(payload_context, "laps_remaining", Num(2)).num ])

\* _context_from_payload(payload_context, telemetry_frame): the update, then
\* get_current_context() unless int() raised
ContextFromPayload ==
    /\ pc = "tracker"
    /\ \E payload_context \in PayloadContexts :
         LET ctx == context_from_payload(context, payload_context, FrameSoc)
         IN  /\ context' = ctx
             /\ snapshot' =
                  IF IsInt(Get(payload_context, "current_lap", Num(2)))
                  THEN get_current_context(ctx)
                  ELSE SeenThrough(snapshot, ctx)
    /\ last_op' = "_context_from_payload"
    /\ UNCHANGED << phase_call, prev_phase_call, enginevars, apivars, fnvars >>

\* get_current_context()
GetCurrentContext ==
    /\ pc = "tracker"
    /\ snapshot' = get_current_context(context)
    /\ last_op' = "get_current_context"
    /\ UNCHANGED << context, phase_call, prev_phase_call, enginevars,
                    apivars, fnvars >>

\* apply_priority_cascade(results, snapshot): the Decision keeps the dict it
\* was handed under race_context
CascadeOnSnapshot ==
    /\ pc = "tracker"
    /\ snapshot.taken
    /\ race_context' = snapshot.value
    /\ decision' = apply_priority_cascade(results, snapshot.value)
    /\ last_op' = "apply_priority_cascade"
    /\ UNCHANGED << telemetry, timeout_ms, pc, idx, elapsed, results, invoked,
                    failed, last_latency, timed_out, inference_times >>
    /\ UNCHANGED << context, phase_call, prev_phase_call, snapshot,
                    apivars, fnvars >>

NextTracker ==
    \/ UpdateContext
    \/ TrackerDetermineRacePhase
    \/ UpdateSocAndEta
    \/ ContextFromPayload
    \/ GetCurrentContext
    \/ CascadeOnSnapshot

SpecTracker == InitTracker /\ [][NextTracker]_vars

\* the engine at rest while other parts of the program are exercised
IdleEngine(label) ==
    /\ telemetry = Telemetry("dict", required_keys, FALSE)
    /\ race_context \in EngineContexts
    /\ timeout_ms = 0
    /\ pc = label
    /\ idx = 1
    /\ elapsed = 0
    /\ results = EmptyDict
    /\ invoked = << >>
    /\ failed = {}
    /\ last_latency = 0
    /\ timed_out = FALSE
    /\ inference_times = EmptyDict
    /\ decision = Pending

\* ------------------------------------------------- the inference endpoint
HistoryLimit == 100

Obj(fields) == [obj |-> fields]

\* value or {}: a missing value, None and 0 give the empty dict
OrEmpty(payload, key) ==
    IF key \notin DOMAIN payload THEN Obj(EmptyDict)
    ELSE IF payload[key] = Num(0) THEN Obj(EmptyDict)
    ELSE payload[key]

\* float("nan") is a number for _to_number, and round() raises on it
IsNaN(value) == value = Str("nan")

\* the telemetry part of a request: empty, a speed, a ph2 entry that is a
\* number instead of an object, and a speed given as the string "nan"
PayloadTelemetries ==
    { EmptyDict,
      [ph2 |-> Obj([speed |-> Num(50)])],
      [ph2 |-> Num(5)],
      [ph2 |-> Obj([speed |-> Str("nan")])] }

\* _heuristic_insights(payload): .get on a ph2 or ucbe entry that is not an
\* object raises AttributeError, round() of a NaN speed raises ValueError
_heuristic_insights(payload_telemetry) ==
    LET ph2  == OrEmpty(payload_telemetry, "ph2")
        ucbe == OrEmpty(payload_telemetry, "ucbe")
    IN  IF "obj" \notin DOMAIN ph2 \/ "obj" \notin DOMAIN ucbe
        THEN [exception |-> "AttributeError"]
        ELSE IF "speed" \in DOMAIN ph2.obj /\ IsNaN(ph2.obj.speed)
        THEN [exception |-> "ValueError"]
        ELSE [ source          |-> "heuristic_fallback",
               models_executed |-> << "energy", "racing_line", "h2_purge",
                                      "fatigue", "anomaly", "efficiency",
                                      "slip_coast", "rank" >> ]

\* text.strip().lower().replace(" ", "-") on the map names of the requests
Slug(text) ==
    CASE text = "Lusail" -> "lusail"
      [] text = "Sepang North" -> "sepang-north"
      [] OTHER -> text

\* STATE.active_map after the request's active_map, a non-empty string here
incoming_active_map(current_map, payload_context) ==
    IF "active_map" \in DOMAIN payload_context
       /\ "str" \in DOMAIN payload_context["active_map"]
       /\ payload_context["active_map"].str # ""
    THEN [ id   |-> Slug(payload_context["active_map"].str),
           name |-> payload_context["active_map"].str,
           code |-> Slug(payload_context["active_map"].str) ]
    ELSE current_map

ApiContexts == PayloadContexts \cup { [active_map |-> Str("Sepang North")] }

\* what the predictors leave behind in a cycle of the endpoint: nothing, an
\* energy result, a critical anomaly
ApiResultSets ==
    { EmptyDict,
      ("energy" :> predict_energy(40)),
      ("anomaly" :> [anomaly_detected |-> TRUE, severity |-> "CRITICAL"]) }

\* run_real_time_inference on the frame, which is valid, with timeout_ms=100:
\* the cascade on the results, stamped, or the cascade's TypeError
run_real_time_inference(res, ctx) ==
    LET final_decision == apply_priority_cascade(res, ctx)
    IN  IF final_decision = TypeError THEN TypeError
        ELSE Stamp(final_decision, 0, res)

\* _engine_to_dashboard_payload: the fields the history and the caller read
_engine_to_dashboard_payload(engine_result, fallback) ==
    [ source          |-> "kerangka_ml_engine",
      models_executed |-> IF Get(engine_result, "models_executed", << >>) # << >>
                          THEN engine_result.models_executed
                          ELSE fallback.models_executed,
      severity        |-> Get(engine_result, "severity", "NORMAL") ]

\* _append_inference_history: insert(0, item), then the cut at 100; an item
\* is kept by its timestamp, its other fields copy the response
_append_inference_history(history, timestamp) ==
    LET longer == << [timestamp |-> timestamp] >> \o history
    IN  IF Len(longer) > HistoryLimit
        THEN SubSeq(longer, 1, HistoryLimit)
        ELSE longer

Returned(payload, map) == [returned |-> TRUE, active_map |-> map] @@ payload

InitApi ==
    /\ IdleEngine("api")
    /\ InitContextManager
    /\ inference_history = << >>
    /\ active_map = DefaultMap
    /\ response = NoResponse
    /\ engine_loaded \in BOOLEAN
    /\ now = 0
    /\ fn_call = NoCall

\* the request leaves through an exception of _heuristic_insights, which is
\* computed before the try
InferenceRaises(fallback) ==
    /\ response' = [returned |-> FALSE, exception |-> fallback.exception]
    /\ UNCHANGED << inference_history, active_map, engine_loaded, now >>
    /\ UNCHANGED << enginevars, ctxvars, fnvars >>

\* STATE.engine is None, or the try block raised before the engine ran:
\* the heuristic payload is appended and returned
InferenceFallsBack(fallback, map) ==
    /\ inference_history' = _append_inference_history(inference_history, now + 1)
    /\ now' = now + 1
    /\ active_map' = map
    /\ response' = Returned(fallback, map)
    /\ UNCHANGED << engine_loaded, enginevars, ctxvars, fnvars >>

\* the try block from the context update on: the engine runs on the
\* snapshot; its Decision is turned into the payload, its exception into the
\* heuristic payload; either is appended and returned
InferenceRunsEngine(fallback, map, payload_context, res) ==
    LET ctx    == context_from_payload(context, payload_context, FrameSoc)
        result == run_real_time_inference(res, ctx)
        payload == IF result = TypeError THEN fallback
                   ELSE _engine_to_dashboard_payload(result, fallback)
    IN  /\ context' = ctx
        /\ snapshot' = get_current_context(ctx)
        /\ last_op' = "_context_from_payload"
        /\ race_context' = ctx
        /\ results' = res
        /\ decision' = result
        /\ invoked' = priority_order
        /\ failed' = ModelNames \ DOMAIN res
        /\ inference_times' = [m \in DOMAIN res |-> 0] @@ inference_times
        /\ idx' = Len(priority_order) + 1
        /\ inference_history' =
             _append_inference_history(inference_history, now + 1)
        /\ now' = now + 1
        /\ active_map' = map
        /\ response' = Returned(payload, map)
        /\ UNCHANGED << telemetry, timeout_ms, pc, elapsed, last_latency,
                        timed_out, phase_call, prev_phase_call, engine_loaded,
                        fn_call >>

\* POST /api/ml/inference
Inference ==
    /\ pc = "api"
    /\ now < MaxRequests
    /\ \E payload_context \in ApiContexts,
          payload_telemetry \in PayloadTelemetries,
          res \in ApiResultSets :
         LET fallback == _heuristic_insights(payload_telemetry)
             map      == incoming_active_map(active_map, payload_context)
         IN  IF "exception" \in DOMAIN fallback
             THEN InferenceRaises(fallback)
             ELSE IF ~engine_loaded
             THEN InferenceFallsBack(fallback, map)
             ELSE IF ~IsInt(Get(payload_context, "current_lap", Num(2)))
             THEN InferenceFallsBack(fallback, map)
             ELSE InferenceRunsEngine(fallback, map, payload_context, res)

NextApi == Inference

SpecApi == InitApi /\ [][NextApi]_vars

\* ------------------------------------ the two aggressiveness matrices compared
RacePhases == {"PRACTICE", "EARLY", "MID", "LATE", "FINISH", "UNKNOWN"}

\* a tracker whose phase and SOC were set with update_context
InitMatrix ==
    /\ IdleEngine("matrix")
    /\ InitAppState
    /\ \E phase \in RacePhases, soc \in 0..MaxSoc :
         context = update_context(RaceContext,
                       [race_phase |-> phase, current_soc |-> soc])
    /\ phase_call = NoCall
    /\ prev_phase_call = NoCall
    /\ snapshot = NoSnapshot
    /\ last_op = "update_context"

\* get_aggressiveness_level on the dict get_current_context returns
GetAggressivenessLevel ==
    /\ pc = "matrix"
    /\ snapshot' = get_current_context(context)
    /\ last_op' = "get_current_context"
    /\ fn_call' = [ called |-> TRUE,
                    fn     |-> "get_aggressiveness_level",
                    result |-> get_aggressiveness_level(
                                   get_current_context(context).value) ]
    /\ UNCHANGED << context, phase_call, prev_phase_call, enginevars, apivars >>

\* ContextManager.get_adaptive_parameters()
GetAdaptiveParameters ==
    /\ pc = "matrix"
    /\ last_op' = "get_adaptive_parameters"
    /\ fn_call' = [ called |-> TRUE,
                    fn     |-> "get_adaptive_parameters",
                    result |-> get_adaptive_parameters(context) ]
    /\ UNCHANGED << context, phase_call, prev_phase_call, snapshot,
                    enginevars, apivars >>

NextMatrix == GetAggressivenessLevel \/ GetAdaptiveParameters

SpecMatrix == InitMatrix /\ [][NextMatrix]_vars

\* ------------------------------------------------ prioritize_model_outputs
\* the score of one result; confidences are in tenths, so confidence * 10
\* is the stored number
PriorityScore(model_name, result) ==
    (IF model_name = "anomaly" /\ Get(result, "anomaly_detected", FALSE)
     THEN 100
     ELSE IF model_name = "fatigue" /\ Get(result, "medical_alerts", << >>) # << >>
     THEN 90
     ELSE IF model_name = "energy" /\ ~Get(result, "will_finish", FALSE)
     THEN 80
     ELSE 0)
    + Get(result, "confidence", 0)
    + (IF "recommendation" \in DOMAIN result THEN 5 ELSE 0)

\* the results sorted by score, highest first; list.sort is stable, so equal
\* scores keep the order of the dict
SortedByScore(model_results) ==
    LET keys     == KeysInOrder(model_results)
        n        == Len(keys)
        score(i) == PriorityScore(keys[i], model_results[keys[i]])
        place(i) == 1 + Cardinality({ j \in 1..n :
                                        \/ score(j) > score(i)
                                        \/ score(j) = score(i) /\ j < i })
    IN  [ k \in 1..n |->
            model_results[keys[CHOOSE i \in 1..n : place(i) = k]] ]

prioritize_model_outputs(model_results, max_recommendations) ==
    LET sorted == SortedByScore(model_results)
    IN  SubSeq(sorted, 1, IF Len(sorted) < max_recommendations
                          THEN Len(sorted) ELSE max_recommendations)

Confidences == {0, 5, 10}

\* results as the predictors shape them: only racing_line (with efficiency
\* and slip_coast) carries a recommendation
PrioritizeOutputs(model_name) ==
    CASE model_name = "anomaly" ->
             { [anomaly_detected |-> d, confidence |-> c] :
                 d \in BOOLEAN, c \in Confidences }
      [] model_name = "fatigue" ->
             { [medical_alerts |-> a, confidence |-> c] :
                 a \in { << >>, << [severity |-> "HIGH"] >> },
                 c \in Confidences }
      [] model_name = "energy" ->
             { [will_finish |-> w, confidence |-> c] :
                 w \in BOOLEAN, c \in Confidences }
      [] model_name = "racing_line" ->
             { [recommendation |-> "Adjust line", confidence |-> c] :
                 c \in Confidences }
      [] model_name = "rank" ->
             { [confidence |-> c] : c \in Confidences }

InitPrioritize ==
    /\ InitContextManager
    /\ InitAppState
    /\ telemetry = Telemetry("dict", required_keys, FALSE)
    /\ race_context \in EngineContexts
    /\ timeout_ms = 0
    /\ pc = "prioritize"
    /\ idx = 1
    /\ elapsed = 0
    /\ \E a \in PrioritizeOutputs("anomaly") \cup {None},
          f \in PrioritizeOutputs("fatigue") \cup {None},
          e \in PrioritizeOutputs("energy") \cup {None},
          l \in PrioritizeOutputs("racing_line") \cup {None},
          r \in PrioritizeOutputs("rank") \cup {None} :
         results = Present( ("anomaly" :> a) @@ ("fatigue" :> f)
                            @@ ("energy" :> e) @@ ("h2_purge" :> None)
                            @@ ("racing_line" :> l) @@ ("slip_coast" :> None)
                            @@ ("efficiency" :> None) @@ ("rank" :> r) )
    /\ invoked = << >>
    /\ failed = {}
    /\ last_latency = 0
    /\ timed_out = FALSE
    /\ inference_times = EmptyDict
    /\ decision = Pending

\* prioritize_model_outputs(model_results, max_recommendations)
PrioritizeModelOutputs ==
    /\ pc = "prioritize"
    /\ \E max_recommendations \in 0..MaxRecommendations :
         fn_call' = [ called |-> TRUE,
                      fn     |-> "prioritize_model_outputs",
                      max_recommendations |-> max_recommendations,
                      result |-> prioritize_model_outputs(results,
                                                          max_recommendations) ]
    /\ UNCHANGED << enginevars, ctxvars, apivars >>

NextPrioritize == PrioritizeModelOutputs

SpecPrioritize == InitPrioritize /\ [][NextPrioritize]_vars

\* ===================================================================== claims
\* what a caller reads as the Decision's list of actions
AllActions(d) ==
    IF "actions" \in DOMAIN d THEN d.actions
    ELSE IF "cascade_actions" \in DOMAIN d THEN d.cascade_actions
    ELSE << >>

IsDecision(d) == "primary_action" \in DOMAIN d /\ "severity" \in DOMAIN d

ActionKinds(d) == { AllActions(d)[i].action : i \in 1..Len(AllActions(d)) }

Has(res, m) == m \in DOMAIN res

CriticalAnomaly(res) ==
    /\ Has(res, "anomaly")
    /\ res["anomaly"].anomaly_detected
    /\ res["anomaly"].severity = "CRITICAL"

AnomalyDetected(res) == Has(res, "anomaly") /\ res["anomaly"].anomaly_detected

MedicalAlerts(res) ==
    IF Has(res, "fatigue") THEN res["fatigue"].medical_alerts ELSE << >>

EnergyShort(res) ==
    /\ Has(res, "energy")
    /\ (res["energy"].will_finish = FALSE \/ res["energy"].margin < 10)

\* some Phase-1 condition holds, whatever its severity
Phase1Fires(res) ==
    \/ AnomalyDetected(res)
    \/ MedicalAlerts(res) # << >>
    \/ (Has(res, "fatigue") /\ res["fatigue"].fatigue_level = 3)

\* C1: a result set with a detected Critical anomaly yields a Decision whose
\* only action is AnomalyDetected, which is also the primary action, with
\* severity Critical, whatever the other results hold; Phase 2 is not run
\* (no energy action, and no error when the energy result is missing).
C1_SafetyShortCircuit ==
    (pc = "returned" /\ CriticalAnomaly(results)) =>
        /\ IsDecision(decision)
        /\ Len(AllActions(decision)) = 1
        /\ AllActions(decision)[1].action = "ANOMALY_DETECTED"
        /\ decision.primary_action = AllActions(decision)[1]
        /\ decision.severity = "CRITICAL"

C1_Witness ==
    /\ pc = "returned"
    /\ CriticalAnomaly(results)
    /\ Has(results, "energy") /\ results["energy"].will_finish = FALSE
    /\ MedicalAlerts(results) # << >>
    /\ Has(results, "racing_line") /\ results["racing_line"].confidence = 79
    /\ IsDecision(decision)
    /\ ActionKinds(decision) = {"ANOMALY_DETECTED"}

\* C2: PerformanceOptimization is among the actions only when no Phase-1
\* condition holds (of any severity) and the energy result, if any, has
\* will_finish true and margin >= 10.
C2_PerformanceGated ==
    (pc = "returned" /\ "PERFORMANCE_OPTIMIZATION" \in ActionKinds(decision)) =>
        /\ ~Phase1Fires(results)
        /\ ~EnergyShort(results)

C2_Witness ==
    /\ pc = "returned"
    /\ ~Phase1Fires(results)
    /\ Has(results, "energy")
    /\ results["energy"].will_finish /\ results["energy"].margin = 9
    /\ Has(results, "racing_line") /\ results["racing_line"].confidence = 79
    /\ ActionKinds(decision) = {"LOW_ENERGY_MARGIN"}

\* a non-critical Phase-1 action also keeps Phase 3 out
C2_WitnessHighSafety ==
    /\ pc = "returned"
    /\ AnomalyDetected(results) /\ ~CriticalAnomaly(results)
    /\ Has(results, "energy") /\ results["energy"].margin = 35
    /\ Has(results, "efficiency") /\ results["efficiency"].efficiency_gain = 23
    /\ ActionKinds(decision) = {"ANOMALY_DETECTED"}

\* C3: every cycle, and every call of the cascade, ends with a Decision
\* (possibly the fallback one): none ends by raising.
C3_CycleNeverRaises ==
    (pc = "done") =>
        \/ IsDecision(decision)
        \/ Get(decision, "status", "None") = "FALLBACK"

IsPrefix(s, t) ==
    /\ Len(s) <= Len(t)
    /\ \A i \in 1..Len(s) : s[i] = t[i]

Range(s) == { s[i] : i \in 1..Len(s) }

\* C4: a cycle on valid telemetry whose budget is never exhausted (the time
\* spent in all predictor calls stays within the budget) calls the eight
\* predictors once each, in the fixed priority order.
C4_FullOrderWithinBudget ==
    (pc = "done" /\ validate_telemetry(telemetry) /\ elapsed <= timeout_ms) =>
        invoked = priority_order

C4_Witness ==
    /\ pc = "done"
    /\ validate_telemetry(telemetry)
    /\ elapsed = timeout_ms
    /\ elapsed = MaxBudget
    /\ invoked = priority_order
    /\ ~timed_out

\* C5: the predictors called in a cycle are a prefix of the priority order,
\* and every stored result belongs to a called predictor.
C5_PrefixInvariant ==
    /\ IsPrefix(invoked, priority_order)
    /\ DOMAIN results \subseteq Range(invoked)

\* C5: a predictor is called only in a step that starts with the elapsed time
\* within the budget, and never after the loop was left on a failed check.
C5_CallOnlyWithinBudget ==
    (invoked' # invoked) => (elapsed <= timeout_ms /\ ~timed_out /\ pc = "loop")

\* C5: for every budget and all latencies the called predictors form a prefix
\* of the priority order: each call passes its budget check, no call follows a
\* failed check, and no result is stored without all earlier predictors called.
C5_BudgetTruncation ==
    /\ []C5_PrefixInvariant
    /\ [][C5_CallOnlyWithinBudget]_vars
    /\ [][timed_out => timed_out' /\ invoked' = invoked]_vars

C5_Witness ==
    /\ pc = "done"
    /\ timed_out
    /\ Len(invoked) = 3
    /\ Has(results, "energy")
    /\ elapsed > timeout_ms

C7_FailureIsOmission ==
    /\ failed \cap DOMAIN results = {}
    /\ decision # PredictorError
    /\ Range(invoked) \ failed \subseteq DOMAIN results
    /\ (pc = "loop" /\ failed # {}) => idx = Len(invoked) + 1
    /\ (pc = "done" /\ failed # {} /\ ~timed_out) => invoked = priority_order
    /\ (pc = "done" /\ "models_executed" \in DOMAIN decision
          /\ validate_telemetry(telemetry)) =>
            Range(decision.models_executed) = Range(invoked) \ failed

C7_Witness ==
    /\ pc = "done"
    /\ "anomaly" \in failed
    /\ "racing_line" \in failed
    /\ invoked = priority_order
    /\ IsDecision(decision)
    /\ decision.models_executed =
         << "fatigue", "energy", "h2_purge", "slip_coast", "efficiency", "rank" >>

\* some medical alert of the fatigue result, at any position, is Critical
CriticalMedicalAlert(res) ==
    \E i \in 1..Len(MedicalAlerts(res)) :
        MedicalAlerts(res)[i].severity = "CRITICAL"

\* C8: whenever the result set holds a detected Critical anomaly, or a fatigue
\* result with a Critical medical alert (detected non-critical anomaly or
\* not), the Decision returned has severity Critical and its only action is
\* the safety action of that signal.
C8_CriticalNeverHidden ==
    (/\ pc = "returned"
     /\ IsDecision(decision)
     /\ (CriticalAnomaly(results) \/ CriticalMedicalAlert(results))) =>
        /\ decision.severity = "CRITICAL"
        /\ Len(AllActions(decision)) = 1
        /\ AllActions(decision)[1].severity = "CRITICAL"
        /\ AllActions(decision)[1].action =
             IF CriticalAnomaly(results) THEN "ANOMALY_DETECTED" ELSE "MEDICAL_ALERT"

SafetyKinds == {"ANOMALY_DETECTED", "MEDICAL_ALERT", "HIGH_FATIGUE"}

EnergyKinds == {"DNF_RISK", "LOW_ENERGY_MARGIN"}

\* the actions of a Decision whose kind is in kinds, in order
ActionsOfKind(d, kinds) ==
    SelectSeq(AllActions(d), LAMBDA a : a.action \in kinds)

\* the chain of Phase 1 as the specification words it
ExpectedPhase1(res) ==
    IF AnomalyDetected(res)
    THEN << [ action   |-> "ANOMALY_DETECTED",
              severity |-> IF res["anomaly"].severity = "CRITICAL"
                           THEN "CRITICAL" ELSE "HIGH" ] >>
    ELSE IF MedicalAlerts(res) # << >>
    THEN << [ action   |-> "MEDICAL_ALERT",
              severity |-> IF Head(MedicalAlerts(res)).severity = "CRITICAL"
                           THEN "CRITICAL" ELSE "HIGH" ] >>
    ELSE IF Has(res, "fatigue") /\ res["fatigue"].fatigue_level = 3
    THEN << [ action |-> "HIGH_FATIGUE", severity |-> "HIGH" ] >>
    ELSE << >>

\* C9: the safety actions of every Decision are exactly what the chain gives:
\* AnomalyDetected on a detected anomaly, else MedicalAlert on a medical alert
\* (severity Critical iff the first alert's is), else HighFatigue (High) at
\* fatigue level 3, else none; never more than one.
C9_Phase1Chain ==
    (pc = "returned" /\ IsDecision(decision)) =>
        /\ ActionsOfKind(decision, SafetyKinds) = ExpectedPhase1(results)
        /\ Len(ActionsOfKind(decision, SafetyKinds)) <= 1

C9_Witness ==
    /\ pc = "returned"
    /\ Has(results, "anomaly") /\ ~AnomalyDetected(results)
    /\ Has(results, "fatigue") /\ MedicalAlerts(results) = << >>
    /\ results["fatigue"].fatigue_level = 3
    /\ IsDecision(decision)
    /\ decision.primary_action = [action |-> "HIGH_FATIGUE", severity |-> "HIGH"]

C9_WitnessMedical ==
    /\ pc = "returned"
    /\ ~AnomalyDetected(results)
    /\ Len(MedicalAlerts(results)) = 1
    /\ Head(MedicalAlerts(results)).severity = "HIGH"
    /\ IsDecision(decision)
    /\ decision.primary_action = [action |-> "MEDICAL_ALERT", severity |-> "HIGH"]

\* Phase 2 as the specification words it, for a present energy result
ExpectedPhase2(res) ==
    IF res["energy"].will_finish = FALSE
    THEN << [action |-> "DNF_RISK", severity |-> "CRITICAL"] >>
    ELSE IF res["energy"].margin < 10
    THEN << [action |-> "LOW_ENERGY_MARGIN", severity |-> "HIGH"] >>
    ELSE << >>

Phase1Critical(res) ==
    /\ ExpectedPhase1(res) # << >>
    /\ ExpectedPhase1(res)[1].severity = "CRITICAL"

\* C10: without a Phase-1 short-circuit and with an energy result present,
\* the energy actions of the Decision are DnfRisk (Critical) when will_finish
\* is false, else LowEnergyMargin (High) when margin < 10, else none (none at
\* margin 10); this also holds beside a non-critical Phase-1 action.
C10_Phase2Energy ==
    (pc = "returned" /\ Has(results, "energy") /\ ~Phase1Critical(results)) =>
        /\ IsDecision(decision)
        /\ ActionsOfKind(decision, EnergyKinds) = ExpectedPhase2(results)

C10_Witness ==
    /\ pc = "returned"
    /\ AnomalyDetected(results) /\ ~CriticalAnomaly(results)
    /\ Has(results, "energy")
    /\ results["energy"].will_finish /\ results["energy"].margin = 9
    /\ IsDecision(decision)
    /\ AllActions(decision) =
         << [action |-> "ANOMALY_DETECTED", severity |-> "HIGH"],
            [action |-> "LOW_ENERGY_MARGIN", severity |-> "HIGH"] >>

C10_WitnessMarginTen ==
    /\ pc = "returned"
    /\ ~Phase1Fires(results)
    /\ Has(results, "energy")
    /\ results["energy"].will_finish /\ results["energy"].margin = 10
    /\ IsDecision(decision)
    /\ ActionsOfKind(decision, EnergyKinds) = << >>

\* the order of the severity levels, lowest first
SeverityOrder == << "NORMAL", "WARNING", "HIGH", "CRITICAL", "EMERGENCY" >>

SeverityRank(sev) == CHOOSE i \in 1..Len(SeverityOrder) : SeverityOrder[i] = sev

AtLeast(sev, floor) == SeverityRank(sev) >= SeverityRank(floor)

\* C11: when Phase 2 emits an action (its severity is Critical or High), the
\* severity of the Decision is Warning or higher and is not lower than the
\* severity of the Phase-1 action beside it.
C11_SeverityRaised ==
    (/\ pc = "returned"
     /\ IsDecision(decision)
     /\ ActionsOfKind(decision, EnergyKinds) # << >>) =>
        /\ AtLeast(decision.severity, "WARNING")
        /\ \A i \in 1..Len(ActionsOfKind(decision, SafetyKinds)) :
             AtLeast(decision.severity,
                     ActionsOfKind(decision, SafetyKinds)[i].severity)

PerformanceKinds == {"PERFORMANCE_OPTIMIZATION"}

\* C12: in every Decision that is not the Phase-1 short-circuit one, the
\* action list is the Phase-1 actions, then the Phase-2 actions, then the
\* Phase-3 actions, nothing else, and the primary action is its first element.
C12_ConcatenationInPhaseOrder ==
    (pc = "returned" /\ IsDecision(decision) /\ ~Phase1Critical(results)) =>
        /\ AllActions(decision) =
             ActionsOfKind(decision, SafetyKinds)
               \o ActionsOfKind(decision, EnergyKinds)
               \o ActionsOfKind(decision, PerformanceKinds)
        /\ ActionsOfKind(decision, SafetyKinds) = ExpectedPhase1(results)
        /\ Has(results, "energy") =>
             ActionsOfKind(decision, EnergyKinds) = ExpectedPhase2(results)
        /\ AllActions(decision) # << >> =>
             decision.primary_action = AllActions(decision)[1]

C12_Witness ==
    /\ pc = "returned"
    /\ ~AnomalyDetected(results)
    /\ MedicalAlerts(results) # << >>
    /\ Has(results, "energy") /\ results["energy"].will_finish = FALSE
    /\ IsDecision(decision)
    /\ AllActions(decision) =
         << [action |-> "MEDICAL_ALERT", severity |-> "HIGH"],
            [action |-> "DNF_RISK", severity |-> "CRITICAL"] >>
    /\ decision.primary_action = [action |-> "MEDICAL_ALERT", severity |-> "HIGH"]

\* the opinions that qualify for Phase 3, by the thresholds of the text:
\* confidence above 0.7, gain above 2, slip detected, coast ratio above 50
LineQualifies(res) ==
    Has(res, "racing_line") /\ res["racing_line"].confidence > 70

GainQualifies(res) ==
    Has(res, "efficiency") /\ res["efficiency"].efficiency_gain > 20

SlipQualifies(res) == Has(res, "slip_coast") /\ res["slip_coast"].slip_detected

CoastQualifies(res) ==
    /\ Has(res, "slip_coast")
    /\ ~res["slip_coast"].slip_detected
    /\ res["slip_coast"].optimal_coast_ratio > 50

SomeOpinionQualifies(res) ==
    LineQualifies(res) \/ GainQualifies(res) \/ SlipQualifies(res)
      \/ CoastQualifies(res)

\* Phase 1 and Phase 2 produce nothing, so Phase 3 is evaluated
Phase3Evaluated(res) ==
    /\ ~Phase1Fires(res)
    /\ Has(res, "energy")
    /\ ~EnergyShort(res)

C14_AlertCountDefined ==
    (pc = "returned" /\ IsDecision(decision)) =>
        /\ "count_alerts" \in DOMAIN decision
        /\ decision.count_alerts =
             Cardinality({ i \in 1..Len(AllActions(decision)) :
                 AllActions(decision)[i].severity
                     \in {"CRITICAL", "HIGH", "WARNING"} })

\* the sub-recommendation list of the Decision's performance action
SubRecommendations(d) ==
    IF ActionsOfKind(d, PerformanceKinds) = << >> THEN << >>
    ELSE ActionsOfKind(d, PerformanceKinds)[1].phase_specific_recommendations

C15_WitnessSlip ==
    /\ pc = "returned"
    /\ Phase3Evaluated(results)
    /\ SlipQualifies(results)
    /\ results["slip_coast"].optimal_coast_ratio = 50
    /\ SubRecommendations(decision) = << "TRACTION_CONTROL" >>

\* C16: a cycle whose telemetry, dict or one-row table, lacks one of
\* soc_current, speed_avg, motor_temp returns the FALLBACK decision with an
\* empty models_executed and a non-empty recommendation list, and invokes no
\* predictor.
C16_MissingFieldFallsBack ==
    (pc = "done" /\ ~(required_keys \subseteq telemetry.columns)) =>
        /\ Get(decision, "status", "None") = "FALLBACK"
        /\ Get(decision, "models_executed", None) = << >>
        /\ Get(decision, "recommendations", << >>) # << >>
        /\ invoked = << >>

\* C17: the models_executed list stamped on a Decision is the list of the
\* predictors invoked in the cycle, in invocation order, those that failed
\* or returned nothing included.
C17_ExecutedIsInvoked ==
    (pc = "done" /\ "models_executed" \in DOMAIN decision) =>
        decision.models_executed = invoked

DecisionFields ==
    { "primary_action", "cascade_actions", "severity", "models_executed",
      "total_inference_ms", "count_alerts" }

\* C18: every value a cycle returns (normal, short-circuit or fallback
\* Decision) defines primary action, action list, severity, models executed,
\* total inference time and alert count under the same field names.
C18_WellFormedDecision ==
    (pc = "done" /\ decision # TypeError) =>
        DecisionFields \subseteq DOMAIN decision

Phases == {"PRACTICE", "EARLY", "MID", "LATE", "FINISH"}

\* C20: determine_race_phase returns Practice for lap 0, Early for laps 1-2,
\* Mid for lap 3, Late for lap = total and Finish for lap > total, for every
\* lap >= 0 and total >= 1; no other value such as Unknown is returned, and
\* the same arguments give the same phase again.
C20_PhaseTableEveryTotal ==
    phase_call.called =>
        /\ phase_call.current_lap = 0 => phase_call.phase = "PRACTICE"
        /\ phase_call.current_lap \in 1..2 => phase_call.phase = "EARLY"
        /\ phase_call.current_lap = 3 => phase_call.phase = "MID"
        /\ phase_call.current_lap = phase_call.total_laps =>
             phase_call.phase = "LATE"
        /\ phase_call.current_lap > phase_call.total_laps =>
             phase_call.phase = "FINISH"
        /\ phase_call.phase \in Phases
        /\ (/\ prev_phase_call.called
            /\ prev_phase_call.current_lap = phase_call.current_lap
            /\ prev_phase_call.total_laps = phase_call.total_laps) =>
               prev_phase_call.phase = phase_call.phase

\* C20 as amended: laps 0, 1-2 and 3 give Practice, Early and Mid whatever
\* the total; a later lap gives Late when it equals the total, Finish when it
\* exceeds it and Unknown when it is below it; with the default total of 4
\* the table of the claim holds and Unknown is never returned; the same
\* arguments give the same phase again.
C20_PhaseByFirstMatch ==
    phase_call.called =>
        LET lap   == phase_call.current_lap
            total == phase_call.total_laps
            phase == phase_call.phase
        IN  /\ lap = 0 => phase = "PRACTICE"
            /\ lap \in 1..2 => phase = "EARLY"
            /\ lap = 3 => phase = "MID"
            /\ (lap > 3 /\ lap = total) => phase = "LATE"
            /\ (lap > 3 /\ lap > total) => phase = "FINISH"
            /\ (lap > 3 /\ lap < total) => phase = "UNKNOWN"
            /\ total = DefaultTotalLaps =>
                 /\ phase \in Phases
                 /\ lap = total => phase = "LATE"
                 /\ lap > total => phase = "FINISH"
            /\ (/\ prev_phase_call.called
                /\ prev_phase_call.current_lap = lap
                /\ prev_phase_call.total_laps = total) =>
                   prev_phase_call.phase = phase

\* lap 4 of 5 asked twice: Unknown both times
C20_Witness ==
    /\ phase_call.called
    /\ phase_call.current_lap = 4
    /\ phase_call.total_laps = 5
    /\ phase_call.phase = "UNKNOWN"
    /\ prev_phase_call = phase_call

\* the last lap of a two-lap race is Early
C20_WitnessShortRace ==
    /\ phase_call.called
    /\ phase_call.current_lap = 2
    /\ phase_call.total_laps = 2
    /\ phase_call.phase = "EARLY"

\* C24: a latency is recorded for every predictor invoked in the cycle, one
\* that failed or returned no result included, and after the cycle the
\* latency table holds entries for that cycle's invocations only.
C24_LatencyForEveryInvocation ==
    (pc = "done" /\ IsDecision(decision)) =>
        DOMAIN inference_times = Range(invoked)

\* C26: when the context yields SURVIVAL aggressiveness (Late phase, SOC at
\* most 8, optimization not allowed), the cascade emits no
\* PerformanceOptimization action.
C26_NoOptimizationInSurvival ==
    (/\ pc = "returned"
     /\ IsDecision(decision)
     /\ get_aggressiveness_level(race_context).aggressiveness = "SURVIVAL"
     /\ ~get_aggressiveness_level(race_context).optimization_allowed) =>
        "PERFORMANCE_OPTIMIZATION" \notin ActionKinds(decision)

\* C28: a Decision holds at most two actions and at most one per phase; a
\* Phase-1 action, when present, is the first element and the primary
\* action; a PerformanceOptimization action, when present, is the only one.
C28_ActionListShape ==
    (pc = "returned" /\ IsDecision(decision)) =>
        LET all    == AllActions(decision)
            safety == ActionsOfKind(decision, SafetyKinds)
            energy == ActionsOfKind(decision, EnergyKinds)
            perf   == ActionsOfKind(decision, PerformanceKinds)
        IN  /\ Len(all) <= 2
            /\ Len(safety) <= 1 /\ Len(energy) <= 1 /\ Len(perf) <= 1
            /\ Len(all) = Len(safety) + Len(energy) + Len(perf)
            /\ safety # << >> =>
                 /\ all[1] = safety[1]
                 /\ decision.primary_action = safety[1]
            /\ perf # << >> => all = << perf[1] >>

\* a high safety action followed by a low energy margin: two actions
C28_Witness ==
    /\ pc = "returned"
    /\ IsDecision(decision)
    /\ Len(AllActions(decision)) = 2
    /\ AllActions(decision)[1].action = "HIGH_FATIGUE"
    /\ AllActions(decision)[2].action = "LOW_ENERGY_MARGIN"
    /\ decision.primary_action.action = "HIGH_FATIGUE"
    /\ SomeOpinionQualifies(results)

\* a performance action on its own
C28_WitnessPerformance ==
    /\ pc = "returned"
    /\ IsDecision(decision)
    /\ AllActions(decision) # << >>
    /\ AllActions(decision)[1].action = "PERFORMANCE_OPTIMIZATION"
    /\ Len(AllActions(decision)) = 1

\* the result set with its purge and rank entries replaced (None removes)
WithPurgeAndRank(res, purge, rank) ==
    LET others == [ m \in DOMAIN res \ {"h2_purge", "rank"} |-> res[m] ]
        p == IF purge = None THEN EmptyDict ELSE ("h2_purge" :> purge)
        r == IF rank = None THEN EmptyDict ELSE ("rank" :> rank)
    IN  others @@ p @@ r

\* C29: the Decision of the cascade does not depend on the Purge and Rank
\* results: any two result sets that differ only in those two entries, an
\* emergency purge of severity CRITICAL included, give the same primary
\* action, actions, severity and alert count.
C29_PurgeAndRankIgnored ==
    pc = "returned" =>
        \A purge \in PurgeOutputs \cup {None}, rank \in RankOutputs \cup {None} :
            apply_priority_cascade(WithPurgeAndRank(results, purge, rank),
                                   race_context) = decision

\* an emergency purge beside quiet results: the Decision is Normal
C29_Witness ==
    /\ pc = "returned"
    /\ Has(results, "h2_purge")
    /\ results["h2_purge"].purge_recommend = "EMERGENCY_PURGE"
    /\ results["h2_purge"].severity = "CRITICAL"
    /\ Has(results, "rank")
    /\ IsDecision(decision)
    /\ decision.severity = "NORMAL"
    /\ decision.primary_action.action = "NORMAL_OPERATION"
    /\ decision =
         apply_priority_cascade(WithPurgeAndRank(results, None, None),
                                race_context)

\* C30: for every race phase and every SOC, get_aggressiveness_level on a
\* context and get_adaptive_parameters on the same context return the same
\* aggressiveness label and the same safety margin.
C30_MatricesAgree ==
    fn_call.called =>
        LET other == IF fn_call.fn = "get_aggressiveness_level"
                     THEN get_adaptive_parameters(context)
                     ELSE get_aggressiveness_level(context)
        IN  /\ fn_call.result.aggressiveness = other.aggressiveness
            /\ fn_call.result.safety_margin = other.safety_margin

\* a result flagged for safety: anomaly detected, fatigue with medical
\* alerts, energy that will not finish
Flagged(result) ==
    \/ Get(result, "anomaly_detected", FALSE)
    \/ Get(result, "medical_alerts", << >>) # << >>
    \/ ("will_finish" \in DOMAIN result /\ ~result.will_finish)

HasRecommendation(result) == "recommendation" \in DOMAIN result

\* C27: prioritize_model_outputs returns at most max_recommendations results,
\* every result flagged for safety ahead of every unflagged one, and among
\* the unflagged ones a result with a recommendation ahead of one without,
\* whatever their confidences.
C27_SafetyActionabilityConfidence ==
    fn_call.called =>
        LET out == fn_call.result
        IN  /\ Len(out) <= fn_call.max_recommendations
            /\ \A i, j \in 1..Len(out) :
                 (Flagged(out[i]) /\ ~Flagged(out[j])) => i < j
            /\ \A i, j \in 1..Len(out) :
                 (/\ ~Flagged(out[i]) /\ ~Flagged(out[j])
                  /\ HasRecommendation(out[i])
                  /\ ~HasRecommendation(out[j])) => i < j

\* C21: after any sequence of tracker operations the stored race_phase is the
\* phase derived from the stored current_lap and the total lap count
\* (whatever that total is).
C21_PhaseFollowsLap ==
    (pc = "tracker" /\ last_op # "__init__") =>
        \E total_laps \in 1..MaxTotal :
            context.race_phase =
                determine_race_phase(context.current_lap, total_laps)

\* C22: after any sequence of update_context and update_soc_and_eta calls
\* the context's current_soc lies in 0..100.
C22_SocInRange ==
    (pc = "tracker"
       /\ last_op \in {"__init__", "update_context", "update_soc_and_eta"}) =>
        context.current_soc \in 0..100

SnapshotTakers == {"get_current_context", "_context_from_payload"}

\* C23: the cascade leaves the snapshot it receives unchanged and keeps it in
\* the Decision; a snapshot from get_current_context is a copy: no later
\* operation of the tracker changes it, nor the snapshot inside a Decision
\* already returned.
C23_SnapshotIsReadOnly ==
    [][ (snapshot.taken /\ last_op' \notin SnapshotTakers) =>
          /\ snapshot' = snapshot
          /\ last_op' = "apply_priority_cascade" =>
               /\ race_context' = snapshot.value
               /\ IsDecision(decision')
               /\ decision'.race_context = snapshot.value
          /\ last_op' # "apply_priority_cascade" =>
               /\ race_context' = race_context
               /\ decision' = decision ]_vars

\* a Decision was returned on a snapshot and the tracker was updated since
C23_Witness ==
    /\ pc = "tracker"
    /\ last_op = "update_context"
    /\ snapshot.taken
    /\ IsDecision(decision)
    /\ decision.race_context = snapshot.value
    /\ race_context = snapshot.value
    /\ context # snapshot.value
    /\ context.current_soc # snapshot.value.current_soc

\* the history is at most 100 long and newest first
HistoryBounded ==
    /\ Len(inference_history) <= HistoryLimit
    /\ \A i \in 1..Len(inference_history) - 1 :
         inference_history[i].timestamp > inference_history[i + 1].timestamp

\* C25: the inference history holds at most 100 entries, newest first, and
\* every request (engine path, heuristic path with no engine, exception
\* path) appends exactly one entry and returns a response.
C25_EveryRequestLogged ==
    [][ pc = "api" =>
          /\ HistoryBounded'
          /\ response'.returned
          /\ inference_history' # << >>
          /\ inference_history'[1].timestamp = now'
          /\ now' = now + 1
          /\ Len(inference_history') =
               (IF Len(inference_history) < HistoryLimit
                THEN Len(inference_history) + 1 ELSE HistoryLimit)
          /\ \A i \in 2..Len(inference_history') :
               inference_history'[i] = inference_history[i - 1] ]_vars

====
